---- MODULE Spec2Model ----
(***************************************************************************)
(* A model of the Council1901 backend (src/backend/src/lib.rs): the token  *)
(* codec, the seat registry, the conversation directory and the message    *)
(* log, running as concurrent request handlers over a key-value store.     *)
(*                                                                         *)
(* Strings are sequences of one-character strings, compared byte by byte   *)
(* as Rust compares String values.  The key-value store is a function from *)
(* key strings to values; a handler is suspended only at its store calls,  *)
(* so each action is one store call together with the local computation    *)
(* that surrounds it.  The store is taken to be linearizable: a get sees   *)
(* every put that completed before it.                                     *)
(***************************************************************************)
EXTENDS Integers, Sequences, FiniteSets, TLC

(***************************************************************************)
(* Bounds of the model.                                                    *)
(***************************************************************************)
MaxRoomLen == 2

(***************************************************************************)
(* Option values.                                                          *)
(***************************************************************************)
None == <<>>

Some(x) == <<x>>

IsSome(o) == o # <<>>

Unwrap(o) == o[1]

(***************************************************************************)
(* Characters and bytes.                                                   *)
(***************************************************************************)
Digits == <<"0", "1", "2", "3", "4", "5", "6", "7", "8", "9">>

Lower == <<"a", "b", "c", "d", "e", "f", "g", "h", "i", "j", "k", "l", "m",
           "n", "o", "p", "q", "r", "s", "t", "u", "v", "w", "x", "y", "z">>

Range(s) == {s[i] : i \in DOMAIN s}

Chars == Range(Digits) \cup Range(Lower) \cup {"-", ":", "|"}

IndexIn(s, c) == CHOOSE i \in DOMAIN s : s[i] = c

\* The ASCII code of a character.
ByteOf == [c \in Chars |->
             IF c = "-" THEN 45
             ELSE IF c = ":" THEN 58
             ELSE IF c = "|" THEN 124
             ELSE IF c \in Range(Digits) THEN 47 + IndexIn(Digits, c)
             ELSE 96 + IndexIn(Lower, c)]

as_bytes(s) == [i \in DOMAIN s |-> ByteOf[s[i]]]

\* s < t and s <= t on strings: lexicographic on bytes, a proper prefix first.
StrLess(s, t) ==
  LET both == 1..(IF Len(s) < Len(t) THEN Len(s) ELSE Len(t))
      differ == {i \in both : s[i] # t[i]}
  IN IF differ = {} THEN Len(s) < Len(t)
     ELSE LET first == CHOOSE i \in differ : \A j \in differ : i <= j
          IN ByteOf[s[first]] < ByteOf[t[first]]

StrLeq(s, t) == s = t \/ StrLess(s, t)

starts_with(s, prefix) ==
  Len(prefix) <= Len(s) /\ SubSeq(s, 1, Len(prefix)) = prefix

\* hex::encode: two lower-case hexadecimal digits per byte.
HexDigits == <<"0", "1", "2", "3", "4", "5", "6", "7", "8", "9",
               "a", "b", "c", "d", "e", "f">>

hex_encode(bytes) ==
  [i \in 1..(2 * Len(bytes)) |->
     IF i % 2 = 1 THEN HexDigits[(bytes[(i + 1) \div 2] \div 16) + 1]
     ELSE HexDigits[(bytes[i \div 2] % 16) + 1]]

\* A byte string right-padded with zero bytes to a fixed width.
PadRight(bytes, width) ==
  bytes \o [i \in 1..(IF Len(bytes) < width THEN width - Len(bytes) ELSE 0) |-> 0]

(***************************************************************************)
(* Country                                                                 *)
(***************************************************************************)
england == <<"e", "n", "g", "l", "a", "n", "d">>
france == <<"f", "r", "a", "n", "c", "e">>
germany == <<"g", "e", "r", "m", "a", "n", "y">>
italy == <<"i", "t", "a", "l", "y">>
austria == <<"a", "u", "s", "t", "r", "i", "a">>
russia == <<"r", "u", "s", "s", "i", "a">>
turkey == <<"t", "u", "r", "k", "e", "y">>

Countries == {england, france, germany, italy, austria, russia, turkey}

valid_country(s) == s \in Countries

(***************************************************************************)
(* Token: {room_id}|{country}|{hmac_hex}                                   *)
(***************************************************************************)
\* The output width of HMAC-SHA256 in bytes.
HMAC_LEN == 32

\* HMAC-SHA256 as an injective function of (key, message) with a fixed
\* output width: key, a separator byte, the message, zero padding.
HmacSha256(key, msg) == PadRight(key \o <<1>> \o msg, HMAC_LEN)

\* A digest that leaves the room_id out of the signed message.
compute_hmac_hex_country(secret, room_id, country) ==
  hex_encode(HmacSha256(as_bytes(secret), as_bytes(country)))

compute_hmac_hex(secret, room_id, country) ==
  hex_encode(HmacSha256(as_bytes(secret), as_bytes(room_id \o <<":">> \o country)))

make_token(secret, room_id, country) ==
  room_id \o <<"|">> \o country \o <<"|">> \o compute_hmac_hex(secret, room_id, country)

Claims(room_id, country) == [room_id |-> room_id, country |-> country]

\* A search from the left instead: the FIRST position of c in s.
find(s, c) ==
  LET found == {i \in DOMAIN s : s[i] = c}
  IN IF found = {} THEN 0 ELSE CHOOSE i \in found : \A j \in found : i <= j

\* str::rfind: the last position of a character, 0 when there is none.
rfind(s, c) ==
  LET found == {i \in DOMAIN s : s[i] = c}
  IN IF found = {} THEN 0 ELSE CHOOSE i \in found : \A j \in found : j <= i

verify_token(secret, token) ==
  LET last == rfind(token, "|") IN
  IF last = 0 THEN None
  ELSE
    LET hmac_part == SubSeq(token, last + 1, Len(token))
        rest == SubSeq(token, 1, last - 1)
        mid == rfind(rest, "|")
    IN
    IF mid = 0 THEN None
    ELSE
      LET country_part == SubSeq(rest, mid + 1, Len(rest))
          room_id_part == SubSeq(rest, 1, mid - 1)
      IN
      IF ~valid_country(country_part) THEN None
      ELSE IF compute_hmac_hex(secret, room_id_part, country_part) # hmac_part THEN None
      ELSE Some(Claims(room_id_part, country_part))

(***************************************************************************)
(* Conversation ID                                                         *)
(***************************************************************************)
\* The participants left in the order given.
unsorted(s) == s

\* Vec<String>::sort: ascending byte-wise order (insertion sort).
RECURSIVE InsertSorted(_, _)
InsertSorted(x, s) ==
  IF s = <<>> THEN <<x>>
  ELSE IF StrLess(x, Head(s)) THEN <<x>> \o s
  ELSE <<Head(s)>> \o InsertSorted(x, Tail(s))

RECURSIVE sort(_)
sort(s) == IF s = <<>> THEN <<>> ELSE InsertSorted(Head(s), sort(Tail(s)))

RECURSIVE join(_, _)
join(s, sep) ==
  IF s = <<>> THEN <<>>
  ELSE IF Len(s) = 1 THEN Head(s)
  ELSE Head(s) \o sep \o join(Tail(s), sep)

contains(s, x) == \E i \in DOMAIN s : s[i] = x

\* The number of digest bytes kept for a conversation id.
CONV_ID_BYTES == 16

\* Sha256::digest(input)[..16] as an injective function of the input: the
\* input bytes, zero-padded to the kept width (and not cut when longer, which
\* keeps distinct inputs apart as the digest does).
Sha256Prefix(bytes) == PadRight(bytes, CONV_ID_BYTES)

conversation_id(room_id, participants) ==
  LET sorted == sort(participants)
      input == room_id \o <<":">> \o join(sorted, <<":">>)
  IN hex_encode(Sha256Prefix(as_bytes(input)))

(***************************************************************************)
(* KV keys and helpers                                                     *)
(***************************************************************************)
seat_key(room_id, country) ==
  <<"r", "o", "o", "m", ":">> \o room_id \o <<":", "s", "e", "a", "t", ":">> \o country

list_key(room_id) ==
  <<"r", "o", "o", "m", ":">> \o room_id
    \o <<":", "c", "o", "n", "v", "e", "r", "s", "a", "t", "i", "o", "n", "s">>

meta_key(conv_id) == <<"c", "o", "n", "v", ":">> \o conv_id \o <<":", "m", "e", "t", "a">>

msg_prefix(conv_id) == <<"c", "o", "n", "v", ":">> \o conv_id \o <<":", "m", "s", "g", ":">>

\* format!("{}", n): the decimal digits of n.
RECURSIVE Decimal(_)
Decimal(n) ==
  IF n < 10 THEN <<Digits[n + 1]>> ELSE Decimal(n \div 10) \o <<Digits[(n % 10) + 1]>>

\* The timestamp written without zero padding.
Pad20_unpadded(n) == Decimal(n)

\* format!("{:020}", n): zero-padded on the left to at least 20 characters.
Pad20(n) ==
  LET d == Decimal(n) IN
  [i \in 1..(IF Len(d) < 20 THEN 20 - Len(d) ELSE 0) |-> "0"] \o d

msg_key(conv_id, timestamp, message_id) ==
  msg_prefix(conv_id) \o Pad20(timestamp) \o <<":">> \o message_id

since_key(conv_id, since) == msg_prefix(conv_id) \o Pad20(since) \o <<":">>

\* kv.get(key): Some(value) or None.
kv_get(store, key) == IF key \in DOMAIN store THEN Some(store[key]) ELSE None

\* kv.put(key, value): the store with the key bound to the value.
kv_put(store, key, value) ==
  [k \in DOMAIN store \cup {key} |-> IF k = key THEN value ELSE store[k]]

\* The keys of a set in ascending order, as kv.list() returns them.
RECURSIVE SortedKeys(_)
SortedKeys(S) ==
  IF S = {} THEN <<>>
  ELSE LET pivot == CHOOSE k \in S : TRUE
           lower == {j \in S : StrLess(j, pivot)}
       IN SortedKeys(lower) \o <<pivot>> \o SortedKeys((S \ lower) \ {pivot})

kv_list(store, prefix) == SortedKeys({k \in DOMAIN store : starts_with(k, prefix)})

(***************************************************************************)
(* State                                                                   *)
(***************************************************************************)
VARIABLES
  kv,      \* the key-value store: a function from key strings to values
  proc,    \* per request slot: the handler's position, inputs, locals, response
  issued,  \* history: the tokens handed out by handle_auth, one record each
  log,     \* history: the messages whose append has returned its message_id
  created, \* history: the conversations whose create has returned their id
  tk       \* the token codec exercised on its own: inputs, token, verdict

vars == <<kv, proc, issued, log, created, tk>>

\* The request slots: requests in different slots run concurrently.
Procs == {1, 2}

\* env.secret(HMAC_SECRET)
SECRET == <<"k">>

MAX_CONTENT_LENGTH == 4096

MAX_MSG_FETCH == 200

\* The longest room_id handle_auth accepts.
MAX_ROOM_ID_LEN == 64

Idle ==
  [pc |-> "idle", op |-> "none", in |-> <<>>, st |-> <<>>,
   status |-> 0, body |-> <<>>, puts |-> 0]

\* A request that has begun: its operation and inputs, nothing written yet.
Begin(op, in) ==
  [pc |-> "start", op |-> op, in |-> in, st |-> <<>>,
   status |-> 0, body |-> <<>>, puts |-> 0]

\* The handler returns a response.
Respond(r, status, body) == [r EXCEPT !.pc = "done", !.status = status, !.body = body]

\* err(msg, status)
err(r, status) == Respond(r, status, <<>>)

\* The handler moves on to its next store call.
Goto(r, pc, st) == [r EXCEPT !.pc = pc, !.st = st]

\* A slot is free when no request occupies it or its request has returned.
Ready(p) == proc[p].pc \in {"idle", "done"}

TkIdle == [phase |-> "off"]

InitStore == << >>

Init ==
  /\ kv = InitStore
  /\ proc = [p \in Procs |-> Idle]
  /\ issued = {}
  /\ log = {}
  /\ created = {}
  /\ tk = TkIdle

\* The tokens of the seats of the model and their verification, computed once.
R1 == <<"r">>

R2 == <<"r", ":", "f", "r", "a", "n", "c", "e">>

\* A token nobody issued: the digest of another seat under a seat's name.
ForgedToken == R1 \o <<"|">> \o russia \o <<"|">> \o compute_hmac_hex(SECRET, R1, france)

KnownTokens ==
  {make_token(SECRET, room, c) : room \in {R1, R2}, c \in {france, italy, russia}}
  \cup {ForgedToken}

Verified == [t \in KnownTokens |-> verify_token(SECRET, t)]

\* get_claims: the bearer token of the request, verified; None without one.
\* (Verified[token] is verify_token(secret, token), looked up instead of recomputed.)
get_claims(secret, token) ==
  IF token = None THEN None
  ELSE IF secret = SECRET /\ Unwrap(token) \in KnownTokens THEN Verified[Unwrap(token)]
  ELSE verify_token(secret, Unwrap(token))

(***************************************************************************)
(* POST /api/auth                                                          *)
(***************************************************************************)
\* handle_auth without the look-up of the seat marker deciding anything.
AuthCheck_unchecked(p, room_id, country) ==
  /\ Ready(p)
  /\ LET r == Begin("auth",
                    [room_id |-> room_id, country |-> country,
                     after |-> \E t \in issued :
                                 t.room_id = room_id /\ t.country = country])
     IN
     proc' = [proc EXCEPT ![p] =
       IF ~valid_country(country) THEN err(r, 400)
       ELSE IF room_id = <<>> \/ Len(room_id) > MAX_ROOM_ID_LEN THEN err(r, 400)
       ELSE Goto(r, "auth_put", [taken |-> kv_get(kv, seat_key(room_id, country))])]
  /\ UNCHANGED <<kv, issued, log, created, tk>>

\* Validation of the body and the look-up of the seat marker.
AuthCheck(p, room_id, country) ==
  /\ Ready(p)
  /\ LET r == Begin("auth",
                    [room_id |-> room_id, country |-> country,
                     after |-> \E t \in issued :
                                 t.room_id = room_id /\ t.country = country])
     IN
     proc' = [proc EXCEPT ![p] =
       IF ~valid_country(country) THEN err(r, 400)
       ELSE IF room_id = <<>> \/ Len(room_id) > MAX_ROOM_ID_LEN THEN err(r, 400)
       ELSE LET taken == kv_get(kv, seat_key(room_id, country)) IN
            IF IsSome(taken) THEN err(r, 409)
            ELSE Goto(r, "auth_put", [taken |-> taken])]
  /\ UNCHANGED <<kv, issued, log, created, tk>>

\* handle_auth returning the token without marking the seat as claimed.
AuthPut_unmarked(p) ==
  /\ proc[p].pc = "auth_put"
  /\ LET r == proc[p]
         access_token == make_token(SECRET, r.in.room_id, r.in.country)
     IN
     /\ proc' = [proc EXCEPT ![p] = Respond(r, 200, access_token)]
     /\ issued' = issued \cup
          {[room_id |-> r.in.room_id, country |-> r.in.country,
            token |-> access_token, raced |-> FALSE,
            k |-> Cardinality({t \in issued : t.room_id = r.in.room_id
                                              /\ t.country = r.in.country}) + 1]}
  /\ UNCHANGED <<kv, log, created, tk>>

\* The token is made, the seat is marked as claimed, the token is returned.
AuthPut(p) ==
  /\ proc[p].pc = "auth_put"
  /\ LET r == proc[p]
         key == seat_key(r.in.room_id, r.in.country)
         access_token == make_token(SECRET, r.in.room_id, r.in.country)
     IN
     /\ kv' = kv_put(kv, key, TRUE)
     /\ proc' = [proc EXCEPT ![p] =
                   Respond([r EXCEPT !.puts = @ + 1], 200, access_token)]
     /\ issued' = issued \cup
          {[room_id |-> r.in.room_id, country |-> r.in.country,
            token |-> access_token,
            raced |-> r.st.taken = None /\ key \in DOMAIN kv,
            k |-> Cardinality({t \in issued : t.room_id = r.in.room_id
                                              /\ t.country = r.in.country}) + 1]}
  /\ UNCHANGED <<log, created, tk>>

(***************************************************************************)
(* GET /api/conversations                                                  *)
(***************************************************************************)
\* The token and the room_id parameter are checked, the room's index is read.
ListStart(p, token, room_id) ==
  /\ Ready(p)
  /\ LET r == Begin("list", [claims |-> get_claims(SECRET, token), room_id |-> room_id])
         claims == get_claims(SECRET, token)
     IN
     proc' = [proc EXCEPT ![p] =
       IF claims = None THEN err(r, 401)
       ELSE IF room_id # Unwrap(claims).room_id THEN err(r, 401)
       ELSE LET conv_ids == kv_get(kv, list_key(Unwrap(claims).room_id))
                ids == IF IsSome(conv_ids) THEN Unwrap(conv_ids) ELSE <<>>
            IN IF ids = <<>> THEN Respond(r, 200, <<>>)
               ELSE Goto(r, "list_meta",
                         [claims |-> Unwrap(claims), conv_ids |-> ids, i |-> 1,
                          result |-> <<>>])]
  /\ UNCHANGED <<kv, issued, log, created, tk>>

\* One turn of the loop: the metadata of the next indexed conversation is read.
ListMeta(p) ==
  /\ proc[p].pc = "list_meta"
  /\ LET r == proc[p]
         id == r.st.conv_ids[r.st.i]
         meta == kv_get(kv, meta_key(id))
         result == IF IsSome(meta) /\ contains(Unwrap(meta).participants, r.st.claims.country)
                   THEN Append(r.st.result,
                               [conversation_id |-> id,
                                participants |-> Unwrap(meta).participants])
                   ELSE r.st.result
     IN
     proc' = [proc EXCEPT ![p] =
       IF r.st.i = Len(r.st.conv_ids) THEN Respond(r, 200, result)
       ELSE Goto(r, "list_meta", [r.st EXCEPT !.i = @ + 1, !.result = result])]
  /\ UNCHANGED <<kv, issued, log, created, tk>>

(***************************************************************************)
(* POST /api/conversations                                                 *)
(***************************************************************************)
\* The first invalid or repeated participant decides the error; None if neither.
RECURSIVE CheckParticipants(_, _)
CheckParticipants(participants, seen) ==
  IF participants = <<>> THEN None
  ELSE IF ~valid_country(Head(participants)) THEN Some(400)
  ELSE IF Head(participants) \in seen THEN Some(400)
  ELSE CheckParticipants(Tail(participants), seen \cup {Head(participants)})

\* The validation with a size check that lets four participants through.
CreateError_four(claims, room_id, participants) ==
  IF claims = None THEN Some(401)
  ELSE IF room_id # Unwrap(claims).room_id THEN Some(401)
  ELSE IF Len(participants) < 2 \/ Len(participants) > 4 THEN Some(400)
  ELSE IF IsSome(CheckParticipants(participants, {})) THEN CheckParticipants(participants, {})
  ELSE IF ~contains(participants, Unwrap(claims).country) THEN Some(403)
  ELSE None

\* The status an invalid create request is rejected with, None if it is valid.
CreateError(claims, room_id, participants) ==
  IF claims = None THEN Some(401)
  ELSE IF room_id # Unwrap(claims).room_id THEN Some(401)
  ELSE IF Len(participants) < 2 \/ Len(participants) > 3 THEN Some(400)
  ELSE IF IsSome(CheckParticipants(participants, {})) THEN CheckParticipants(participants, {})
  ELSE IF ~contains(participants, Unwrap(claims).country) THEN Some(403)
  ELSE None

\* The history entry of a create that returns conv_id.
Created(r, conv_id) ==
  [room_id |-> r.in.room_id, members |-> Range(r.in.participants), conv_id |-> conv_id]

\* Validation, the conversation id and the look-up of its metadata.
CreateCheck(p, token, room_id, participants) ==
  /\ Ready(p)
  /\ LET claims == get_claims(SECRET, token)
         r == Begin("create",
                    [claims |-> claims, room_id |-> room_id,
                     participants |-> participants,
                     prior |-> {c.conv_id : c \in {d \in created :
                                   d.room_id = room_id
                                   /\ d.members = Range(participants)}}])
         error == CreateError(claims, room_id, participants)
     IN
     IF IsSome(error)
     THEN proc' = [proc EXCEPT ![p] = err(r, Unwrap(error))] /\ UNCHANGED created
     ELSE LET conv_id == conversation_id(Unwrap(claims).room_id, participants) IN
          IF IsSome(kv_get(kv, meta_key(conv_id)))
          THEN /\ proc' = [proc EXCEPT ![p] = Respond(r, 200, conv_id)]
               /\ created' = created \cup {Created(r, conv_id)}
          ELSE /\ proc' = [proc EXCEPT ![p] =
                            Goto(r, "create_put_meta",
                                 [claims |-> Unwrap(claims), conv_id |-> conv_id])]
               /\ UNCHANGED created
  /\ UNCHANGED <<kv, issued, log, tk>>

\* The metadata is written with the participants sorted.
CreatePutMeta(p) ==
  /\ proc[p].pc = "create_put_meta"
  /\ LET r == proc[p]
         meta == [room_id |-> r.st.claims.room_id,
                  participants |-> sort(r.in.participants)]
     IN
     /\ kv' = kv_put(kv, meta_key(r.st.conv_id), meta)
     /\ proc' = [proc EXCEPT ![p] = Goto([r EXCEPT !.puts = @ + 1], "create_get_list", r.st)]
  /\ UNCHANGED <<issued, log, created, tk>>

\* The room's index is read; nothing more to do if it holds the id already.
CreateGetList(p) ==
  /\ proc[p].pc = "create_get_list"
  /\ LET r == proc[p]
         got == kv_get(kv, list_key(r.st.claims.room_id))
         ids == IF IsSome(got) THEN Unwrap(got) ELSE <<>>
     IN
     IF contains(ids, r.st.conv_id)
     THEN /\ proc' = [proc EXCEPT ![p] = Respond(r, 200, r.st.conv_id)]
          /\ created' = created \cup {Created(r, r.st.conv_id)}
     ELSE /\ proc' = [proc EXCEPT ![p] =
                       Goto(r, "create_put_list",
                            [claims |-> r.st.claims, conv_id |-> r.st.conv_id,
                             ids |-> Append(ids, r.st.conv_id)])]
          /\ UNCHANGED created
  /\ UNCHANGED <<kv, issued, log, tk>>

\* The index with the id appended is written back.
CreatePutList(p) ==
  /\ proc[p].pc = "create_put_list"
  /\ LET r == proc[p] IN
     /\ kv' = kv_put(kv, list_key(r.st.claims.room_id), r.st.ids)
     /\ proc' = [proc EXCEPT ![p] = Respond([r EXCEPT !.puts = @ + 1], 200, r.st.conv_id)]
     /\ created' = created \cup {Created(r, r.st.conv_id)}
  /\ UNCHANGED <<issued, log, tk>>

(***************************************************************************)
(* GET /api/messages                                                       *)
(***************************************************************************)
\* A check that refuses only a caller who fails both conditions.
Permitted_either(meta, claims) ==
  ~(meta.room_id # claims.room_id /\ ~contains(meta.participants, claims.country))

\* The caller may use the conversation: same room, and a listed participant.
Permitted(meta, claims) ==
  ~(meta.room_id # claims.room_id \/ ~contains(meta.participants, claims.country))

\* The token, the conversation_id parameter and the metadata are checked.
ReadCheck(p, token, conv_id, since) ==
  /\ Ready(p)
  /\ LET r == Begin("read", [claims |-> get_claims(SECRET, token),
                             conversation_id |-> conv_id, since |-> since])
         claims == get_claims(SECRET, token)
     IN
     proc' = [proc EXCEPT ![p] =
       IF claims = None THEN err(r, 401)
       ELSE IF conv_id = None THEN err(r, 400)
       ELSE LET meta == kv_get(kv, meta_key(Unwrap(conv_id))) IN
            IF meta = None THEN err(r, 404)
            ELSE IF ~Permitted(Unwrap(meta), Unwrap(claims)) THEN err(r, 403)
            ELSE Goto(r, "read_list", [conv_id |-> Unwrap(conv_id)])]
  /\ UNCHANGED <<kv, issued, log, created, tk>>

\* The loop without its break at MAX_MSG_FETCH messages.
FetchMessages_uncapped(store, keys, since, skey, messages) ==
  LET fetched == SelectSeq(keys, LAMBDA k : ~(since > 0 /\ StrLeq(k, skey))
                                            /\ IsSome(kv_get(store, k)))
  IN messages \o [i \in 1..Len(fetched) |-> store[fetched[i]]]

\* The loop over the listed keys: keys at or before the since key are skipped,
\* the others fetched, and the loop ends when MAX_MSG_FETCH messages are held:
\* the messages are those of the first MAX_MSG_FETCH keys that are not skipped
\* and have a value.
FetchMessages(store, keys, since, skey, messages) ==
  LET fetched == SelectSeq(keys, LAMBDA k : ~(since > 0 /\ StrLeq(k, skey))
                                            /\ IsSome(kv_get(store, k)))
      n == IF Len(fetched) < MAX_MSG_FETCH - Len(messages) THEN Len(fetched)
           ELSE MAX_MSG_FETCH - Len(messages)
  IN messages \o [i \in 1..n |-> store[fetched[i]]]

\* The keys under the conversation's prefix are listed and the messages fetched.
\* The fetches follow the listing in one step: a listed key is never deleted or
\* rewritten, so each later get returns what the store holds now.
ReadList(p) ==
  /\ proc[p].pc = "read_list"
  /\ LET r == proc[p]
         keys == kv_list(kv, msg_prefix(r.st.conv_id))
         messages == FetchMessages(kv, keys, r.in.since,
                                   since_key(r.st.conv_id, r.in.since), <<>>)
     IN proc' = [proc EXCEPT ![p] = Respond(r, 200, messages)]
  /\ UNCHANGED <<kv, issued, log, created, tk>>

(***************************************************************************)
(* POST /api/messages                                                      *)
(***************************************************************************)
\* handle_post_messages with a length check that refuses the longest content.
PostCheck_short(p, token, conv_id, content) ==
  /\ Ready(p)
  /\ LET r == Begin("post", [claims |-> get_claims(SECRET, token),
                             conversation_id |-> conv_id, content |-> content])
         claims == get_claims(SECRET, token)
     IN
     proc' = [proc EXCEPT ![p] =
       IF claims = None THEN err(r, 401)
       ELSE IF content = 0 \/ content >= MAX_CONTENT_LENGTH THEN err(r, 400)
       ELSE LET meta == kv_get(kv, meta_key(conv_id)) IN
            IF meta = None THEN err(r, 404)
            ELSE IF ~Permitted(Unwrap(meta), Unwrap(claims)) THEN err(r, 403)
            ELSE Goto(r, "post_put", [claims |-> Unwrap(claims)])]
  /\ UNCHANGED <<kv, issued, log, created, tk>>

\* handle_post_messages writing the message before the metadata is checked.
PostCheck_write_first(p, token, conv_id, content) ==
  /\ Ready(p)
  /\ LET r == Begin("post", [claims |-> get_claims(SECRET, token),
                             conversation_id |-> conv_id, content |-> content])
         claims == get_claims(SECRET, token)
     IN
     IF claims = None THEN proc' = [proc EXCEPT ![p] = err(r, 401)] /\ UNCHANGED kv
     ELSE IF content = 0 \/ content > MAX_CONTENT_LENGTH
          THEN proc' = [proc EXCEPT ![p] = err(r, 400)] /\ UNCHANGED kv
     ELSE LET meta == kv_get(kv, meta_key(conv_id))
              w == [r EXCEPT !.puts = @ + 1]
          IN /\ kv' = kv_put(kv, msg_key(conv_id, 0, <<"0">>), content)
             /\ proc' = [proc EXCEPT ![p] =
                  IF meta = None THEN err(w, 404)
                  ELSE IF ~Permitted(Unwrap(meta), Unwrap(claims)) THEN err(w, 403)
                  ELSE Goto(w, "post_put", [claims |-> Unwrap(claims)])]
  /\ UNCHANGED <<issued, log, created, tk>>

\* The token, the content length and the metadata are checked.  The content
\* is represented by its length in bytes.
PostCheck(p, token, conv_id, content) ==
  /\ Ready(p)
  /\ LET r == Begin("post", [claims |-> get_claims(SECRET, token),
                             conversation_id |-> conv_id, content |-> content])
         claims == get_claims(SECRET, token)
     IN
     proc' = [proc EXCEPT ![p] =
       IF claims = None THEN err(r, 401)
       ELSE IF content = 0 \/ content > MAX_CONTENT_LENGTH THEN err(r, 400)
       ELSE LET meta == kv_get(kv, meta_key(conv_id)) IN
            IF meta = None THEN err(r, 404)
            ELSE IF ~Permitted(Unwrap(meta), Unwrap(claims)) THEN err(r, 403)
            ELSE Goto(r, "post_put", [claims |-> Unwrap(claims)])]
  /\ UNCHANGED <<kv, issued, log, created, tk>>

\* Uuid::new_v4(): the n-th identifier, as a string.
Uuid(n) == hex_encode(<<n>>)

\* The message is stamped with the time and a fresh id and written.
PostPut(p, timestamp, message_id) ==
  /\ proc[p].pc = "post_put"
  /\ \A m \in log : m.message_id # message_id
  /\ LET r == proc[p]
         message == [message_id |-> message_id,
                     room_id |-> r.st.claims.room_id,
                     conversation_id |-> r.in.conversation_id,
                     sender_country |-> r.st.claims.country,
                     content |-> r.in.content,
                     timestamp |-> timestamp]
     IN
     /\ kv' = kv_put(kv, msg_key(r.in.conversation_id, timestamp, message_id), message)
     /\ proc' = [proc EXCEPT ![p] = Respond([r EXCEPT !.puts = @ + 1], 200, message_id)]
     /\ log' = log \cup {message}
  /\ UNCHANGED <<issued, created, tk>>

(***************************************************************************)
(* The requests the clients send.                                          *)
(***************************************************************************)
LongRoom == [i \in 1..(MAX_ROOM_ID_LEN + 1) |-> "r"]

spain == <<"s", "p", "a", "i", "n">>

\* The Authorization header of a client: the token of its seat once it has
\* been handed one, a forged token, or none.
NoBearer == <<>>

Forged == <<<<>>>>

Holds(who) ==
  IF who \in {NoBearer, Forged} THEN TRUE
  ELSE \E t \in issued : t.room_id = who[1] /\ t.country = who[2]

Bearer(who) ==
  IF who = NoBearer THEN None
  ELSE IF who = Forged THEN Some(ForgedToken)
  ELSE Some((CHOOSE t \in issued : t.room_id = who[1] /\ t.country = who[2]).token)

\* The seats: france, italy and russia in room R1, italy in room R2.
F1 == <<R1, france>>

I1 == <<R1, italy>>

U1 == <<R1, russia>>

I2 == <<R2, italy>>

ConvFR == conversation_id(R1, <<france, russia>>)

ConvFI == conversation_id(R1, <<france, italy>>)

\* A conversation that nobody creates.
ConvNone == conversation_id(R1, <<italy, russia>>)

(***************************************************************************)
(* Spec: the whole service from the empty store, with two seats, one       *)
(* conversation and one message.                                           *)
(***************************************************************************)
AuthBodies ==
  {F1, I1, <<R1, spain>>, <<<<>>, france>>, <<LongRoom, france>>}

ListRequests == {<<F1, R1>>, <<F1, R2>>, <<NoBearer, R1>>}

CreateRequests ==
  {<<F1, R1, <<france, russia>>>>, <<I1, R1, <<france, russia>>>>,
   <<F1, R2, <<france, russia>>>>, <<F1, R1, <<france>>>>,
   <<Forged, R1, <<france, russia>>>>}

ReadRequests ==
  {<<F1, Some(ConvFR), 0>>, <<I1, Some(ConvFR), 0>>, <<F1, Some(ConvNone), 0>>,
   <<F1, None, 0>>, <<NoBearer, Some(ConvFR), 0>>}

PostRequests ==
  {<<F1, ConvFR, 1>>, <<F1, ConvFR, 0>>, <<F1, ConvFR, MAX_CONTENT_LENGTH + 1>>,
   <<I1, ConvFR, 1>>, <<F1, ConvNone, 1>>, <<NoBearer, ConvFR, 1>>}

Next ==
  \E p \in Procs :
    \/ \E b \in AuthBodies : AuthCheck(p, b[1], b[2])
    \/ AuthPut(p)
    \/ \E q \in ListRequests : Holds(q[1]) /\ ListStart(p, Bearer(q[1]), q[2])
    \/ ListMeta(p)
    \/ \E q \in CreateRequests : Holds(q[1]) /\ CreateCheck(p, Bearer(q[1]), q[2], q[3])
    \/ CreatePutMeta(p)
    \/ CreateGetList(p)
    \/ CreatePutList(p)
    \/ \E q \in ReadRequests : Holds(q[1]) /\ ReadCheck(p, Bearer(q[1]), q[2], q[3])
    \/ ReadList(p)
    \/ \E q \in PostRequests : Holds(q[1]) /\ PostCheck(p, Bearer(q[1]), q[2], q[3])
    \/ PostPut(p, 9, Uuid(1))

Spec == Init /\ [][Next]_vars

(***************************************************************************)
(* SpecConv: the conversation directory, two clients of one room creating  *)
(* and listing two conversations concurrently.  It starts from the store   *)
(* in which france and italy have claimed their seats in R1.               *)
(***************************************************************************)
\* The store after the given seats have been claimed, one request each.
SeatsClaimed(seats) == [k \in {seat_key(w[1], w[2]) : w \in seats} |-> TRUE]

TokensIssued(seats) ==
  {[room_id |-> w[1], country |-> w[2], token |-> make_token(SECRET, w[1], w[2]),
    raced |-> FALSE, k |-> 1] : w \in seats}

InitConv ==
  /\ kv = SeatsClaimed({F1, I1})
  /\ proc = [p \in Procs |-> Idle]
  /\ issued = TokensIssued({F1, I1})
  /\ log = {}
  /\ created = {}
  /\ tk = TkIdle

ConvCreateRequests ==
  {<<F1, R1, <<france, russia>>>>, <<F1, R1, <<russia, france>>>>,
   <<I1, R1, <<france, italy>>>>,
   <<I1, R1, <<france, russia>>>>, <<F1, R2, <<france, russia>>>>,
   <<F1, R2, <<france>>>>, <<I1, R1, <<italy>>>>,
   <<F1, R1, <<france, italy, russia, turkey>>>>, <<F1, R1, <<france, france>>>>,
   <<F1, R1, <<france, spain>>>>, <<F1, R1, <<spain, russia, italy>>>>,
   <<NoBearer, R1, <<france, russia>>>>}

ConvListRequests == {<<F1, R1>>, <<I1, R1>>}

NextConv ==
  \E p \in Procs :
    \/ \E q \in ConvCreateRequests : CreateCheck(p, Bearer(q[1]), q[2], q[3])
    \/ CreatePutMeta(p)
    \/ CreateGetList(p)
    \/ CreatePutList(p)
    \/ \E q \in ConvListRequests : ListStart(p, Bearer(q[1]), q[2])
    \/ ListMeta(p)

SpecConv == InitConv /\ [][NextConv]_vars

(***************************************************************************)
(* SpecMsg: the message log of one conversation.  It starts from the store *)
(* in which four seats are claimed and france has created the conversation *)
(* of france and italy in R1; requests arrive one after the other.         *)
(***************************************************************************)
MaxTicks == 2

\* The values Date::now() takes.
Times == {8 + i : i \in 1..MaxTicks}

MaxMsgs == 3

Uuids == {Uuid(n) : n \in 1..MaxMsgs}

InitMsg ==
  /\ kv = kv_put(kv_put(SeatsClaimed({F1, I1, U1, I2}),
                        meta_key(ConvFI),
                        [room_id |-> R1, participants |-> sort(<<france, italy>>)]),
                 list_key(R1), <<ConvFI>>)
  /\ proc = [p \in Procs |-> Idle]
  /\ issued = TokensIssued({F1, I1, U1, I2})
  /\ log = {}
  /\ created = {[room_id |-> R1, members |-> {france, italy}, conv_id |-> ConvFI]}
  /\ tk = TkIdle

MsgReadRequests ==
  {<<w, Some(ConvFI), since>> : w \in {F1, I1}, since \in {0} \cup Times}
  \cup {<<U1, Some(ConvFI), 0>>, <<I2, Some(ConvFI), 0>>, <<F1, Some(ConvNone), 0>>}

MsgPostRequests ==
  {<<F1, ConvFI, 1>>, <<I1, ConvFI, 1>>, <<U1, ConvFI, 1>>, <<I2, ConvFI, 1>>,
   <<F1, ConvNone, 1>>}

NextMsg ==
  \E p \in {1} :
    \/ \E q \in MsgReadRequests : ReadCheck(p, Bearer(q[1]), q[2], q[3])
    \/ ReadList(p)
    \/ \E q \in MsgPostRequests : PostCheck(p, Bearer(q[1]), q[2], q[3])
    \/ \E now \in Times, u \in Uuids : PostPut(p, now, u)

SpecMsg == InitMsg /\ [][NextMsg]_vars

(***************************************************************************)
(* SpecLen: appends with contents of the lengths around the limits, by a   *)
(* participant and a non-participant, to a conversation that exists and to *)
(* one that does not.                                                      *)
(***************************************************************************)
ContentLengths ==
  {0, 1, 2, MAX_CONTENT_LENGTH - 1, MAX_CONTENT_LENGTH, MAX_CONTENT_LENGTH + 1}

LenPostRequests ==
  {<<w, c, n>> : w \in {F1, U1}, c \in {ConvFI, ConvNone}, n \in ContentLengths}

NextLen ==
  \E p \in {1} :
    \/ \E q \in LenPostRequests : PostCheck(p, Bearer(q[1]), q[2], q[3])
    \/ \E u \in {Uuid(1), Uuid(2)} : PostPut(p, 9, u)

SpecLen == InitMsg /\ [][NextLen]_vars

(***************************************************************************)
(* SpecAbort: seats and conversations from the empty store, with store     *)
(* calls that fail.  A failed kv_get or kv_put returns Err, which the      *)
(* handler propagates with `?`: the request ends there with a server error *)
(* and the calls that would have followed are not made.                    *)
(***************************************************************************)
\* A failed marker write that hands the token out all the same.
StoreFails_token(p) ==
  /\ ~Ready(p)
  /\ LET r == proc[p]
         access_token == make_token(SECRET, r.in.room_id, r.in.country)
     IN
     IF r.pc = "auth_put"
     THEN /\ proc' = [proc EXCEPT ![p] = Respond(r, 200, access_token)]
          /\ issued' = issued \cup
               {[room_id |-> r.in.room_id, country |-> r.in.country,
                 token |-> access_token, raced |-> FALSE, k |-> 1]}
     ELSE proc' = [proc EXCEPT ![p] = err(r, 500)] /\ UNCHANGED issued
  /\ UNCHANGED <<kv, log, created, tk>>

\* The store call the request in slot p is about to make fails.
StoreFails(p) ==
  /\ ~Ready(p)
  /\ proc' = [proc EXCEPT ![p] = err(proc[p], 500)]
  /\ UNCHANGED <<kv, issued, log, created, tk>>

AbortAuthBodies == {F1, I1}

AbortCreateRequests ==
  {<<F1, R1, <<france, italy>>>>, <<I1, R1, <<italy, france>>>>,
   <<F1, R1, <<france, russia>>>>}

AbortListRequests == {<<F1, R1>>, <<I1, R1>>}

NextAbort ==
  \E p \in Procs :
    \/ \E b \in AbortAuthBodies : AuthCheck(p, b[1], b[2])
    \/ AuthPut(p)
    \/ \E q \in AbortCreateRequests :
         Holds(q[1]) /\ CreateCheck(p, Bearer(q[1]), q[2], q[3])
    \/ CreatePutMeta(p)
    \/ CreateGetList(p)
    \/ CreatePutList(p)
    \/ \E q \in AbortListRequests : Holds(q[1]) /\ ListStart(p, Bearer(q[1]), q[2])
    \/ ListMeta(p)
    \/ StoreFails(p)

SpecAbort == Init /\ [][NextAbort]_vars

(***************************************************************************)
(* SpecRooms: two rooms, one of them with a ':' in its room_id, with the   *)
(* seats france of room R1 and italy of room R2 claimed.  Conversations    *)
(* are created and listed in both rooms, and messages appended and read.   *)
(***************************************************************************)
\* The conversation of france, italy and russia in room R1.
ConvFIU == conversation_id(R1, <<france, italy, russia>>)

\* The conversation of italy and russia in room R2.
ConvIU2 == conversation_id(R2, <<italy, russia>>)

InitRooms ==
  /\ kv = SeatsClaimed({F1, I2})
  /\ proc = [p \in Procs |-> Idle]
  /\ issued = TokensIssued({F1, I2})
  /\ log = {}
  /\ created = {}
  /\ tk = TkIdle

RoomCreateRequests ==
  {<<F1, R1, <<france, italy, russia>>>>, <<I2, R2, <<italy, russia>>>>,
   <<F1, R1, <<france, russia>>>>}

RoomListRequests == {<<F1, R1>>, <<I2, R2>>}

RoomPostRequests == {<<F1, ConvFIU, 1>>, <<I2, ConvIU2, 1>>}

RoomReadRequests == {<<F1, Some(ConvFIU), 0>>, <<I2, Some(ConvIU2), 0>>}

NextRooms ==
  \E p \in Procs :
    \/ \E q \in RoomCreateRequests : CreateCheck(p, Bearer(q[1]), q[2], q[3])
    \/ CreatePutMeta(p)
    \/ CreateGetList(p)
    \/ CreatePutList(p)
    \/ \E q \in RoomListRequests : ListStart(p, Bearer(q[1]), q[2])
    \/ ListMeta(p)
    \/ \E q \in RoomPostRequests : PostCheck(p, Bearer(q[1]), q[2], q[3])
    \/ PostPut(p, 9, Uuid(1))
    \/ \E q \in RoomReadRequests : ReadCheck(p, Bearer(q[1]), q[2], q[3])
    \/ ReadList(p)

SpecRooms == InitRooms /\ [][NextRooms]_vars

(***************************************************************************)
(* SpecCap: reads of a conversation that holds about MAX_MSG_FETCH         *)
(* messages, appended two per millisecond by france and italy in turn, and *)
(* a few appends more.                                                     *)
(***************************************************************************)
\* How many messages more or fewer than MAX_MSG_FETCH the conversation holds.
MaxExtra == 3

\* The i-th message of the conversation.
CapMessage(i) ==
  [message_id |-> Uuid(i),
   room_id |-> R1,
   conversation_id |-> ConvFI,
   sender_country |-> IF i % 2 = 1 THEN france ELSE italy,
   content |-> 1,
   timestamp |-> 9 + (i \div 2)]

\* The store after the appends of the messages 1..n.
CapStore(store, n) ==
  LET key(i) == msg_key(ConvFI, CapMessage(i).timestamp, CapMessage(i).message_id)
      added == {key(i) : i \in 1..n}
  IN [k \in DOMAIN store \cup added |->
        IF k \in added THEN CapMessage(CHOOSE i \in 1..n : key(i) = k) ELSE store[k]]

InitCap ==
  /\ \E n \in (MAX_MSG_FETCH - 1)..(MAX_MSG_FETCH + MaxExtra) :
       /\ kv = CapStore(kv_put(kv_put(SeatsClaimed({F1, I1}),
                                      meta_key(ConvFI),
                                      [room_id |-> R1,
                                       participants |-> sort(<<france, italy>>)]),
                               list_key(R1), <<ConvFI>>),
                        n)
       /\ log = {CapMessage(i) : i \in 1..n}
  /\ proc = [p \in Procs |-> Idle]
  /\ issued = TokensIssued({F1, I1})
  /\ created = {[room_id |-> R1, members |-> {france, italy}, conv_id |-> ConvFI]}
  /\ tk = TkIdle

CapReadRequests == {<<F1, Some(ConvFI), since>> : since \in {0, 9, 10, 11}}

CapPostRequests == {<<I1, ConvFI, 1>>}

NextCap ==
  \E p \in {1} :
    \/ \E q \in CapReadRequests : ReadCheck(p, Bearer(q[1]), q[2], q[3])
    \/ ReadList(p)
    \/ \E q \in CapPostRequests : PostCheck(p, Bearer(q[1]), q[2], q[3])
    \/ \E now \in {8, 10}, u \in {Uuid(254), Uuid(255)} : PostPut(p, now, u)

SpecCap == InitCap /\ [][NextCap]_vars

(***************************************************************************)
(* SpecToken: the token codec on its own.  A token is issued for a room_id *)
(* and a country, possibly altered in one position, and verified.          *)
(***************************************************************************)
\* The strings over an alphabet of at most n characters.
RECURSIVE StringsUpTo(_, _)
StringsUpTo(alphabet, n) ==
  IF n = 0 THEN {<<>>}
  ELSE LET shorter == StringsUpTo(alphabet, n - 1)
       IN shorter \cup {Append(s, c) : s \in shorter, c \in alphabet}

TokenRooms == StringsUpTo({"r", "|", ":"}, MaxRoomLen)

InitToken ==
  /\ kv = InitStore
  /\ proc = [p \in Procs |-> Idle]
  /\ issued = {}
  /\ log = {}
  /\ created = {}
  /\ \E room_id \in TokenRooms, country \in Countries :
       tk = [phase |-> "input", room_id |-> room_id, country |-> country,
             token |-> <<>>, altered |-> FALSE, result |-> None]

\* issue: make_token for the chosen room_id and country.
Issue ==
  /\ tk.phase = "input"
  /\ tk' = [tk EXCEPT !.phase = "issued",
                      !.token = make_token(SECRET, tk.room_id, tk.country)]
  /\ UNCHANGED <<kv, proc, issued, log, created>>

\* One character of the issued token is replaced by a different one.
Alter(i, c) ==
  /\ tk.phase = "issued"
  /\ ~tk.altered
  /\ i \in DOMAIN tk.token
  /\ c # tk.token[i]
  /\ tk' = [tk EXCEPT !.token = [tk.token EXCEPT ![i] = c], !.altered = TRUE]
  /\ UNCHANGED <<kv, proc, issued, log, created>>

\* verify: verify_token on the token as it is now.
Verify ==
  /\ tk.phase = "issued"
  /\ tk' = [tk EXCEPT !.phase = "verified", !.result = verify_token(SECRET, tk.token)]
  /\ UNCHANGED <<kv, proc, issued, log, created>>

NextToken ==
  \/ Issue
  \/ /\ tk.phase = "issued" /\ ~tk.altered
     /\ \E i \in DOMAIN tk.token, c \in Chars : Alter(i, c)
  \/ Verify

SpecToken == InitToken /\ [][NextToken]_vars

(***************************************************************************)
(* SpecId: conversation_id on its own.  A room_id and a list of two or     *)
(* three distinct participants are chosen, and the id is derived from the  *)
(* list in one order after another.                                        *)
(***************************************************************************)
\* The lists of n distinct elements of S.
RECURSIVE DistinctLists(_, _)
DistinctLists(S, n) ==
  IF n = 0 THEN {<<>>}
  ELSE {Append(l, x) : l \in DistinctLists(S, n - 1), x \in S} \ 
       {l \in [1..n -> S] : \E i, j \in 1..n : i # j /\ l[i] = l[j]}

\* The rearrangements of a list.
Orders(l) ==
  {[i \in DOMAIN l |-> l[f[i]]] :
     f \in {g \in [DOMAIN l -> DOMAIN l] : \A i, j \in DOMAIN l : g[i] = g[j] => i = j}}

IdRooms == {R1, R2}

IdCountries == {austria, france, italy, russia}

InitId ==
  /\ kv = InitStore
  /\ proc = [p \in Procs |-> Idle]
  /\ issued = {}
  /\ log = {}
  /\ created = {}
  /\ \E room_id \in IdRooms,
        participants \in DistinctLists(IdCountries, 2) \cup DistinctLists(IdCountries, 3) :
       tk = [phase |-> "id", room_id |-> room_id, participants |-> participants,
             derived |-> {}]

\* conversation_id is called with the participants in the order given.
DeriveId(order) ==
  /\ tk.phase = "id"
  /\ order \in Orders(tk.participants)
  /\ tk' = [tk EXCEPT !.derived =
              @ \cup {[participants |-> order,
                       id |-> conversation_id(tk.room_id, order)]}]
  /\ UNCHANGED <<kv, proc, issued, log, created>>

NextId == \E order \in Orders(tk.participants) : DeriveId(order)

SpecId == InitId /\ [][NextId]_vars

(***************************************************************************)
(* Properties                                                              *)
(***************************************************************************)
\* The tokens issued for the seat of token t.
TokensOfSeat(t) == {u \in issued : u.room_id = t.room_id /\ u.country = t.country}

\* The statuses of validation and authorization errors.
ErrorStatuses == {400, 401, 403, 404, 409}

\* Slot p takes the first step of a request in this transition.
Starts(p) == Ready(p) /\ proc'[p] # proc[p] /\ proc'[p].pc # "idle"

\* Slot p returns its response in this transition.
Returns(p) == proc'[p] # proc[p] /\ proc'[p].pc = "done"

\* C1 as stated: for any interleaving of concurrent auth requests, at most one
\* request per (room_id, country) seat ever receives a token.
C1_OneTokenPerSeat == \A t \in issued : Cardinality(TokensOfSeat(t)) <= 1

\* C1, amended: at most one token per seat goes to a request that did not race,
\* that is, every further token of the seat went to a request that read the
\* seat marker as absent and wrote it after another request had written it.
C1_OneTokenOutsideRace ==
  \A t \in issued : Cardinality({u \in TokensOfSeat(t) : ~u.raced}) <= 1

\* Two requests raced for a seat and both hold its token.
C1_RaceSeen == \E t \in issued : t.raced /\ Cardinality(TokensOfSeat(t)) = 2

\* C2: an auth request for a seat that starts after an auth request for that
\* seat has returned its token ends with 409 Conflict and no token, whatever
\* happened in between; it never reaches the step that issues a token.
C2_ConflictAfterSuccess ==
  \A p \in Procs :
    (proc[p].op = "auth" /\ proc[p].in.after) =>
      /\ proc[p].pc = "done"
      /\ proc[p].status = 409
      /\ proc[p].body = <<>>
      /\ proc[p].puts = 0

\* A second claim of a seat was answered 409 while the first holder's token
\* is the only one issued for the seat.
C2_SecondClaimRefused ==
  \E p \in Procs :
    /\ proc[p].op = "auth" /\ proc[p].pc = "done"
    /\ proc[p].in.after /\ proc[p].status = 409
    /\ \E t \in issued : t.room_id = proc[p].in.room_id /\ t.country = proc[p].in.country

\* The messages of conversation conv_id whose append has returned.
Appended(conv_id) == {m \in log : m.conversation_id = conv_id}

\* C3: when N <= 200 messages have been appended to a conversation, a read by
\* a participant with since = 0 returns all N, each exactly once, in
\* non-decreasing timestamp order.
C3_ReadAllInOrder ==
  [][\A p \in Procs :
       (proc[p].pc = "read_list" /\ Returns(p) /\ proc[p].in.since = 0
        /\ Cardinality(Appended(proc[p].st.conv_id)) <= MAX_MSG_FETCH) =>
         LET body == proc'[p].body
             all == Appended(proc[p].st.conv_id)
         IN /\ proc'[p].status = 200
            /\ Len(body) = Cardinality(all)
            /\ Range(body) = all
            /\ \A i, j \in DOMAIN body : i < j => body[i].timestamp <= body[j].timestamp]_vars

\* A read with since = 0 returned three messages, two of one millisecond and
\* one of another.
C3_ThreeRead ==
  \E p \in Procs :
    /\ proc[p].op = "read" /\ proc[p].pc = "done" /\ proc[p].status = 200
    /\ proc[p].in.since = 0
    /\ Len(proc[p].body) = 3
    /\ proc[p].body[1].timestamp < proc[p].body[3].timestamp
    /\ Cardinality({proc[p].body[i].timestamp : i \in 1..3}) = 2

\* C4 as stated: a read with since = t, t > 0, returns only messages whose
\* timestamp is strictly greater than t.
C4_StrictlyAfterSince ==
  \A p \in Procs :
    (proc[p].op = "read" /\ proc[p].pc = "done" /\ proc[p].status = 200
     /\ proc[p].in.since > 0) =>
      \A i \in DOMAIN proc[p].body : proc[p].body[i].timestamp > proc[p].in.since

\* The number of entries of the room's conversation index that are conv_id.
IndexEntries(store, room_id, conv_id) ==
  LET got == kv_get(store, list_key(room_id))
      ids == IF IsSome(got) THEN Unwrap(got) ELSE <<>>
  IN Cardinality({i \in DOMAIN ids : ids[i] = conv_id})

\* C5 as stated: a create of a conversation (room, participant set) that
\* starts after a create of the same conversation has returned, returns the
\* same conversation_id, leaves the room's index with exactly one entry for
\* that id, and writes nothing.  Only returns with no other request in flight
\* are looked at, so that the index is the one the calls have left.
C5_CreateTwice ==
  [][\A p \in Procs :
       (Returns(p) /\ proc'[p].op = "create" /\ proc'[p].status = 200
        /\ proc'[p].in.prior # {}
        /\ \A q \in Procs : proc'[q].pc \in {"idle", "done"}) =>
         /\ proc'[p].in.prior = {proc'[p].body}
         /\ IndexEntries(kv', proc'[p].in.room_id, proc'[p].body) = 1
         /\ proc'[p].puts = 0
         /\ kv' = kv]_vars

\* C6: for every room_id, with or without the '|' delimiter in it, and every
\* country of the closed set, verifying the issued token succeeds and returns
\* exactly (room_id, country).
C6_VerifyIssued ==
  (tk.phase = "verified" /\ ~tk.altered) =>
    tk.result = Some(Claims(tk.room_id, tk.country))

\* The issued token of a room_id that holds the delimiter was verified.
C6_DelimiterRoomVerified ==
  /\ tk.phase = "verified" /\ ~tk.altered
  /\ "|" \in Range(tk.room_id)
  /\ IsSome(tk.result)

\* C7: with an injective keyed digest, an issued token with one character
\* replaced by a different one, in any field or delimiter, fails to verify.
C7_AlteredRejected ==
  (tk.phase = "verified" /\ tk.altered) => tk.result = None

\* A token whose room_id field was altered into another room_id was verified
\* and rejected.
C7_AlteredRoomRejected ==
  /\ tk.phase = "verified" /\ tk.altered /\ tk.result = None
  /\ Len(tk.room_id) > 0
  /\ \E i \in 1..Len(tk.room_id) :
       tk.token[i] # tk.room_id[i] /\ tk.token[i] # "|"

\* C8: a read or an append with a valid token (and valid content) is answered
\* 404 when the conversation_id has no metadata, and 403 when the metadata's
\* room_id differs from the caller's room or the caller's country is not a
\* participant; in both cases the store is not written and no message is
\* returned.
C8_NotFoundOrForbidden ==
  [][\A p \in Procs :
       (Starts(p) /\ proc'[p].op \in {"read", "post"}
        /\ IsSome(proc'[p].in.claims)
        /\ (proc'[p].op = "read" => IsSome(proc'[p].in.conversation_id))
        /\ (proc'[p].op = "post" =>
              proc'[p].in.content \in 1..MAX_CONTENT_LENGTH)) =>
         LET r == proc'[p]
             claims == Unwrap(r.in.claims)
             conv_id == IF r.op = "read" THEN Unwrap(r.in.conversation_id)
                        ELSE r.in.conversation_id
             rejected == r.pc = "done" /\ r.body = <<>> /\ r.puts = 0 /\ kv' = kv
         IN IF meta_key(conv_id) \notin DOMAIN kv
            THEN rejected /\ r.status = 404
            ELSE (kv[meta_key(conv_id)].room_id # claims.room_id
                  \/ claims.country \notin Range(kv[meta_key(conv_id)].participants))
                 => rejected /\ r.status = 403]_vars

\* An append by the holder of a seat of another room, whose country is a
\* participant's name, was answered 403 after messages had been appended.
C8_OtherRoomForbidden ==
  \E p \in Procs :
    /\ proc[p].op = "post" /\ proc[p].pc = "done" /\ proc[p].status = 403
    /\ Unwrap(proc[p].in.claims) = Claims(R2, italy)
    /\ log # {}

\* C9: create, called with a valid token, answers 401 when room_id is not the
\* caller's room; otherwise 400 when the participant list has a size other
\* than 2 or 3, a country outside the closed set or a duplicate; otherwise 403
\* when the caller's country is not in the list; each without writing.
C9_CreateRejects ==
  [][\A p \in Procs :
       (Starts(p) /\ proc'[p].op = "create" /\ IsSome(proc'[p].in.claims)) =>
         LET r == proc'[p]
             claims == Unwrap(r.in.claims)
             ps == r.in.participants
             rejected == r.pc = "done" /\ r.body = <<>> /\ r.puts = 0 /\ kv' = kv
             malformed == \/ Len(ps) \notin {2, 3}
                          \/ \E i \in DOMAIN ps : ps[i] \notin Countries
                          \/ \E i, j \in DOMAIN ps : i # j /\ ps[i] = ps[j]
         IN IF r.in.room_id # claims.room_id THEN rejected /\ r.status = 401
            ELSE IF malformed THEN rejected /\ r.status = 400
            ELSE IF claims.country \notin Range(ps) THEN rejected /\ r.status = 403
            ELSE r.pc # "done" \/ r.status = 200]_vars

\* A list of four participants was rejected with 400 after a conversation had
\* been created.
C9_FourRejected ==
  \E p \in Procs :
    /\ proc[p].op = "create" /\ proc[p].pc = "done" /\ proc[p].status = 400
    /\ Len(proc[p].in.participants) = 4
    /\ created # {}

\* C10: a request that ends in 400, 401, 403, 404 or 409 has performed no put:
\* every change of the store is a put counted by a request in flight, and a
\* request answered with an error has counted none.
C10_ErrorsWriteNothing ==
  [][/\ kv' # kv =>
          \E p \in Procs : ~Ready(p) /\ proc'[p].puts = proc[p].puts + 1
     /\ \A p \in Procs :
          (proc'[p].pc = "done" /\ proc'[p].status \in ErrorStatuses) =>
            proc'[p].puts = 0]_vars

\* An append was answered 404 and an auth 409 while the store holds a seat and
\* a conversation.
C10_ErrorsSeen ==
  /\ proc[1].pc = "done" /\ proc[1].op = "post" /\ proc[1].status = 404
  /\ proc[2].pc = "done" /\ proc[2].op = "auth" /\ proc[2].status = 409
  /\ meta_key(ConvFR) \in DOMAIN kv

\* C11: for a fixed room_id, the conversation_id derived from every order of
\* the same two or three participants is the same id, and deriving it again
\* from the same arguments gives the same id.
C11_OrderIndependent ==
  tk.phase = "id" =>
    \A d \in tk.derived :
      /\ d.id = conversation_id(tk.room_id, d.participants)
      /\ \A e \in tk.derived : d.id = e.id

\* The id has been derived from all six orders of three participants.
C11_AllOrdersDerived ==
  /\ tk.phase = "id"
  /\ Len(tk.participants) = 3
  /\ {d.participants : d \in tk.derived} = Orders(tk.participants)

\* C12: an append with a valid token is rejected with 400, without a write,
\* when its content has 0 or more than 4096 bytes, whatever the conversation;
\* with 1 to 4096 bytes it is not rejected with 400.
C12_ContentLength ==
  [][\A p \in Procs :
       (Starts(p) /\ proc'[p].op = "post" /\ IsSome(proc'[p].in.claims)) =>
         LET r == proc'[p] IN
         IF r.in.content \in 1..4096
         THEN ~(r.pc = "done" /\ r.status = 400)
         ELSE r.pc = "done" /\ r.status = 400 /\ r.body = <<>> /\ r.puts = 0 /\ kv' = kv]_vars

\* A message of 4096 bytes is stored and an append of 4097 bytes to an
\* unknown conversation was answered 400.
C12_LimitsSeen ==
  /\ \E m \in log : m.content = 4096
  /\ proc[1].pc = "done" /\ proc[1].op = "post" /\ proc[1].status = 400
  /\ proc[1].in.content = 4097
  /\ proc[1].in.conversation_id = ConvNone

\* The ids in the conversation index of a room.
IndexOf(store, room_id) ==
  LET got == kv_get(store, list_key(room_id))
  IN IF IsSome(got) THEN Range(Unwrap(got)) ELSE {}

\* C13 as stated: the room's conversation index only grows: a conversation id
\* that is in the room's index stays in it at every step.
C13_IndexAppendOnly ==
  [][\A room_id \in {R1, R2} : IndexOf(kv, room_id) \subseteq IndexOf(kv', room_id)]_vars

\* C14 as stated: when a create returns a conversation_id successfully, the
\* id is in the index of the caller's room.  Only returns with no other
\* request in flight are looked at, so that no pending write can still add it.
C14_ReturnedIdIndexed ==
  [][\A p \in Procs :
       (Returns(p) /\ proc'[p].op = "create" /\ proc'[p].status = 200
        /\ \A q \in Procs : proc'[q].pc \in {"idle", "done"}) =>
         proc'[p].body \in IndexOf(kv', Unwrap(proc'[p].in.claims).room_id)]_vars

\* C15: a token is returned for a seat only with the seat's marker stored: the
\* marker of every issued token is present, an auth response that carries a
\* token comes from a request that wrote the marker, and an auth request whose
\* store call failed carries no token.
C15_MarkerBeforeToken ==
  /\ \A t \in issued : kv_get(kv, seat_key(t.room_id, t.country)) = Some(TRUE)
  /\ \A p \in Procs :
       (proc[p].op = "auth" /\ proc[p].pc = "done") =>
         /\ proc[p].body # <<>> =>
              /\ proc[p].status = 200 /\ proc[p].puts = 1
              /\ kv_get(kv, seat_key(proc[p].in.room_id, proc[p].in.country)) = Some(TRUE)
              /\ \E t \in issued : t.token = proc[p].body
         /\ proc[p].status = 500 => (proc[p].body = <<>> /\ proc[p].puts = 0)

\* The marker write of one auth request failed: the seat is unclaimed and no
\* token exists for it, while another seat's token has been returned.
C15_FailedWriteNoToken ==
  \E p, q \in Procs :
    /\ proc[p].op = "auth" /\ proc[p].pc = "done" /\ proc[p].status = 500
    /\ seat_key(proc[p].in.room_id, proc[p].in.country) \notin DOMAIN kv
    /\ \A t \in issued : <<t.room_id, t.country>> # <<proc[p].in.room_id, proc[p].in.country>>
    /\ proc[q].op = "auth" /\ proc[q].pc = "done" /\ proc[q].status = 200

\* C16 as stated: the creates that have returned the same conversation_id
\* were for the same room_id and the same participant set, and the metadata
\* stored under the id a create has returned has that room_id and exactly
\* that participant set.
C16_IdsDistinct ==
  \A c \in created :
    /\ \A d \in created :
         c.conv_id = d.conv_id => (c.room_id = d.room_id /\ c.members = d.members)
    /\ LET meta == kv_get(kv, meta_key(c.conv_id)) IN
       /\ IsSome(meta)
       /\ Unwrap(meta).room_id = c.room_id
       /\ Range(Unwrap(meta).participants) = c.members

\* The conversation ids of the create requests of the rooms R1 and R2.
RoomConvIds == {conversation_id(q[2], q[3]) : q \in RoomCreateRequests}

\* C17 as stated: once metadata is stored under a conversation_id, the value
\* under that key is the same after every step.
C17_MetaImmutable ==
  [][\A c \in RoomConvIds :
       meta_key(c) \in DOMAIN kv =>
         (meta_key(c) \in DOMAIN kv' /\ kv'[meta_key(c)] = kv[meta_key(c)])]_vars

\* The message records in the store.
StoredMessages ==
  {m \in log : kv_get(kv, msg_key(m.conversation_id, m.timestamp, m.message_id)) = Some(m)}

\* C18 as stated: every stored message lies under the prefix of a conversation
\* whose metadata exists, has the metadata's room_id, and has its
\* sender_country among the metadata's participants.
C18_MessagesBelong ==
  \A m \in StoredMessages :
    LET meta == kv_get(kv, meta_key(m.conversation_id)) IN
    /\ IsSome(meta)
    /\ Unwrap(meta).room_id = m.room_id
    /\ contains(Unwrap(meta).participants, m.sender_country)

\* C20 as stated: list reads the index of the caller's room, and every
\* conversation it puts in its result is in that index, has the caller's
\* country among its stored participants, and is a conversation of the
\* caller's room by its stored metadata.
C20_ListScoped ==
  [][\A p \in Procs :
       /\ (Starts(p) /\ proc'[p].op = "list" /\ proc'[p].pc = "list_meta") =>
            kv_get(kv, list_key(Unwrap(proc'[p].in.claims).room_id))
              = Some(proc'[p].st.conv_ids)
       /\ (proc[p].pc = "list_meta" /\ proc'[p] # proc[p]) =>
            LET old == proc[p].st.result
                new == IF proc'[p].pc = "done" THEN proc'[p].body ELSE proc'[p].st.result
                claims == Unwrap(proc[p].in.claims)
            IN Len(new) > Len(old) =>
                 LET e == new[Len(new)]
                     meta == kv[meta_key(e.conversation_id)]
                 IN /\ contains(proc[p].st.conv_ids, e.conversation_id)
                    /\ contains(e.participants, claims.country)
                    /\ e.participants = meta.participants
                    /\ meta.room_id = claims.room_id]_vars

\* Message a comes before message b in storage-key order: by timestamp, then
\* by message_id.
KeyBefore(a, b) ==
  \/ a.timestamp < b.timestamp
  \/ a.timestamp = b.timestamp /\ StrLess(a.message_id, b.message_id)

\* C19: a read returns at most 200 messages of the conversation, in ascending
\* order of (timestamp, message_id), none of them before the since boundary,
\* and every stored message past the boundary that it leaves out comes after
\* every returned message; it leaves messages out only when it returns 200.
C19_LowestKeyedFirst ==
  [][\A p \in Procs :
       (proc[p].pc = "read_list" /\ Returns(p)) =>
         LET body == proc'[p].body
             since == proc[p].in.since
             stored == {m \in StoredMessages : m.conversation_id = proc[p].st.conv_id}
             left == {m \in stored : m.timestamp > since} \ Range(body)
         IN /\ proc'[p].status = 200
            /\ Len(body) <= 200
            /\ Range(body) \subseteq stored
            /\ \A i \in DOMAIN body : since > 0 => body[i].timestamp >= since
            /\ \A i \in DOMAIN body : i > 1 => KeyBefore(body[i - 1], body[i])
            /\ \A m \in left : \A i \in DOMAIN body : KeyBefore(body[i], m)
            /\ left # {} => Len(body) = 200]_vars

\* A read with a since boundary returned 200 messages and left out stored
\* messages past the boundary.
C19_CapReached ==
  \E p \in Procs :
    /\ proc[p].op = "read" /\ proc[p].pc = "done" /\ proc[p].status = 200
    /\ proc[p].in.since > 0
    /\ Len(proc[p].body) = 200
    /\ \E m \in StoredMessages :
         /\ m.conversation_id = proc[p].st.conv_id
         /\ m.timestamp > proc[p].body[200].timestamp

====
